---- MODULE Spec2Model ----
(***************************************************************************)
(* simple-term-renderer: the pixel buffer (src/src/img.rs) and the          *)
(* rendering server with its facade (src/src/rds.rs).                       *)
(*                                                                         *)
(* Three specifications share the definitions below:                       *)
(*   SpecImg   an Image driven by an arbitrary sequence of operations,      *)
(*   SpecDraw  one operation applied to a freshly built Image, with the     *)
(*             geometry drawn from a larger domain,                         *)
(*   Spec      the caller thread, the channel, the barrier and the          *)
(*             rendering thread writing to the terminal.                    *)
(***************************************************************************)
EXTENDS Integers, Sequences, FiniteSets, TLC

VARIABLES
    \* ---- Image harness (img.rs) ----
    img,        \* the Image under test: [data, size]
    TEMP,       \* static mut TEMP of IndexMut::index_mut (one cell for the whole program)
    pre,        \* the Image as it was before the last operation
    op,         \* the last operation: name, arguments, cells written, panic flag
    phase,      \* "seq": any number of operations; "ready"/"done": exactly one
    \* ---- Renderer, the caller's side (rds.rs:98-110, 294-435) ----
    building_frame,     \* Renderer.building_frame
    prev_screen_size,   \* Renderer.prev_screen_size
    cpc,                \* where the caller thread is
    call,               \* the caller's last API call and how it ended
    ncalls,             \* number of API calls made so far
    clgen,              \* local_gen of the caller inside Barrier::wait
    shared,             \* the caller-owned Image behind Arc<Mutex<Image>>
    \* ---- channel and barrier (rds.rs:145-147) ----
    chan,               \* directives sent and not yet received, oldest first
    nsent,              \* number of directives sent so far
    bcount,             \* Barrier: threads that have arrived in this generation
    bgen,               \* Barrier: generation id
    \* ---- the rendering thread (rds.rs:149-237) ----
    epc,                \* where the rendering thread is
    elgen,              \* local_gen of the rendering thread inside Barrier::wait
    screen_size,
    screen,
    prev_screen,
    back,
    fore,
    napplied,           \* number of directives received and applied so far
    last,               \* kind and send number of the directive applied last
    \* ---- standard output and the terminal ----
    outbuf,             \* tokens printed to stdout and not yet flushed
    term,               \* the terminal: cells, cursor, active colours, bells
    pushes,             \* what the last PushFrame and the one before it emitted
    \* ---- terminal settings (rds.rs:98-101, 120-142, 439-456) ----
    termios,            \* Renderer.termios: the struct in memory, [c_lflag, c_cc]
    defaults,           \* Renderer.default_c_lflags and Renderer.default_c_cc
    tty,                \* the terminal device: mode, cursor, screen buffer, mouse reporting
    observed            \* the size get_size returned to the last begin_draw

imgvars == <<img, pre, op, phase>>

callervars == <<building_frame, prev_screen_size, cpc, call, ncalls, clgen, shared>>

syncvars == <<chan, nsent, bcount, bgen>>

enginevars == <<epc, elgen, screen_size, screen, prev_screen, back, fore, napplied, last>>

outvars == <<outbuf, term, pushes>>

ttyvars == <<termios, defaults, tty, observed>>

rdrvars == <<callervars, syncvars, enginevars, outvars, ttyvars>>

vars == <<imgvars, TEMP, rdrvars>>

(***************************************************************************)
(* Bounds of the model.                                                    *)
(***************************************************************************)
\* largest width / height of an Image in SpecDraw
MaxW == 3
MaxH == 3
\* largest width of an Image in SpecImg (its height is at most 2)
SeqW == 2
\* largest number of API calls the caller makes in Spec
MaxCalls == 5
\* largest terminal, in character cells, in Spec
MaxCols == 2
MaxRows == 2

(***************************************************************************)
(* Color (img.rs:47-223).  A colour is its packed 24-bit hex value.        *)
(***************************************************************************)
BLACK == 0
GREEN == 65280
RED == 16711680

Colors == {BLACK, GREEN, RED}

\* Option<Color>::None
NoColor == -1

(***************************************************************************)
(* Vec2 (crate::math, external): an integer pair.                          *)
(***************************************************************************)
vec2(x, y) == [x |-> x, y |-> y]

ZERO == vec2(0, 0)

Abs(n) == IF n < 0 THEN -n ELSE n

Max(a, b) == IF a >= b THEN a ELSE b

Min(a, b) == IF a <= b THEN a ELSE b

\* Rust's integer division truncates toward zero
TruncDiv(a, b) == IF a >= 0 THEN a \div b ELSE -((-a) \div b)

(***************************************************************************)
(* Image.  A machine m = [data, size, temp, wr, panic] is an Image together *)
(* with the shared TEMP cell, the trace wr of the points handed to          *)
(* index_mut, and whether a Vec index has panicked.                        *)
(***************************************************************************)
Blacks(n) == [k \in 1..n |-> BLACK]

\* Image::new
new(w, h) == [data |-> Blacks(w * h), size |-> vec2(w, h)]

Machine(im, temp) ==
    [data |-> im.data, size |-> im.size, temp |-> temp, wr |-> <<>>, panic |-> FALSE]

ImageOf(m) == [data |-> m.data, size |-> m.size]

\* Image::is_out_of_range
is_out_of_range_NoUpperX(im, p) ==
    p.x < 0 \/ p.y < 0 \/ p.y >= im.size.y

is_out_of_range(im, p) ==
    p.x < 0 \/ p.y < 0 \/ p.x >= im.size.x \/ p.y >= im.size.y

\* the Vec index of a point
Offset_HeightStride(im, p) == p.x + p.y * im.size.y

Offset(im, p) == p.x + p.y * im.size.x

\* Index::index: the colour read at p; PanicRead when the Vec index is out of bounds
PanicRead == -2

Index(im, p) ==
    IF ~is_out_of_range(im, p)
    THEN IF Offset(im, p) >= 0 /\ Offset(im, p) < Len(im.data)
         THEN im.data[Offset(im, p) + 1]
         ELSE PanicRead
    ELSE BLACK

\* IndexMut::index_mut followed by the assignment of c
Store(m, p, c) ==
    IF m.panic THEN m
    ELSE IF ~is_out_of_range(m, p)
    THEN IF Offset(m, p) >= 0 /\ Offset(m, p) < Len(m.data)
         THEN [m EXCEPT !.data[Offset(m, p) + 1] = c, !.wr = Append(@, p)]
         ELSE [m EXCEPT !.panic = TRUE, !.wr = Append(@, p)]
    ELSE [m EXCEPT !.temp = c, !.wr = Append(@, p)]

\* Image::point
point(m, p, c) == Store(m, p, c)

\* Vec::resize(n, BLACK)
VecResize(data, n) ==
    [k \in 1..n |-> IF k <= Len(data) THEN data[k] ELSE BLACK]

\* Image::raw_resize
raw_resize_SizeOnly(m, ns) ==
    IF m.panic THEN m ELSE [m EXCEPT !.size = ns]

raw_resize(m, ns) ==
    IF m.panic THEN m
    ELSE IF ns.x * ns.y < 0
    THEN [m EXCEPT !.size = ns, !.panic = TRUE]
    ELSE [m EXCEPT !.size = ns, !.data = VecResize(m.data, ns.x * ns.y)]

\* Image::resize, the copy loop: (j, i) is the next cell, cnt the write index
RECURSIVE resize_loop(_, _, _, _, _)
resize_loop(m, ns, j, i, cnt) ==
    IF m.panic \/ j >= ns.y THEN m
    ELSE IF i >= ns.x THEN resize_loop(m, ns, j + 1, 0, cnt)
    ELSE LET v == Index(m, vec2(i, j))
         IN IF v = PanicRead \/ cnt >= Len(m.data)
            THEN [m EXCEPT !.panic = TRUE]
            ELSE resize_loop([m EXCEPT !.data[cnt + 1] = v], ns, j, i + 1, cnt + 1)

\* Image::resize
resize(m, ns) ==
    LET copied == IF ns.x # m.size.x THEN resize_loop(m, ns, 1, 0, ns.x) ELSE m
    IN raw_resize(copied, ns)

\* Image::clear
clear(m, c) ==
    IF m.panic THEN m ELSE [m EXCEPT !.data = [k \in 1..Len(m.data) |-> c]]

\* Image::line, the guard of the while loop
line_continues_NoExit(m, p1, p2, sx, sy) ==
    /\ (p1.x # p2.x \/ p1.y # p2.y)
    /\ (p1.x < m.size.x - 1 /\ sx > 0) \/ (p1.x >= 0 /\ sx < 0)
    /\ (p1.y < m.size.y /\ sy > 0) \/ (p1.y >= 0 /\ sy < 0)

line_continues_Strict(m, p1, p2, sx, sy) ==
    /\ (p1.x # p2.x \/ p1.y # p2.y)
    /\ (p1.x < m.size.x /\ sx > 0) \/ (p1.x > 0 /\ sx < 0)
    /\ (p1.y < m.size.y /\ sy > 0) \/ (p1.y > 0 /\ sy < 0)

line_continues(m, p1, p2, sx, sy) ==
    /\ (p1.x # p2.x \/ p1.y # p2.y)
    /\ (p1.x < m.size.x /\ sx > 0) \/ (p1.x >= 0 /\ sx < 0)
    /\ (p1.y < m.size.y /\ sy > 0) \/ (p1.y >= 0 /\ sy < 0)

\* Image::line, the while loop
RECURSIVE line_loop(_, _, _, _, _, _, _, _, _)
line_loop(m, p1, p2, dx, sx, dy, sy, err, c) ==
    IF ~m.panic /\ line_continues(m, p1, p2, sx, sy)
    THEN LET e2   == 2 * err
             err1 == IF e2 >= dy THEN err + dy ELSE err
             x1   == IF e2 >= dy THEN p1.x + sx ELSE p1.x
             err2 == IF e2 <= dx THEN err1 + dx ELSE err1
             y1   == IF e2 <= dx THEN p1.y + sy ELSE p1.y
             np   == vec2(x1, y1)
         IN line_loop(Store(m, np, c), np, p2, dx, sx, dy, sy, err2, c)
    ELSE m

\* Image::line
line(m, p1, p2, c) ==
    LET dx == Abs(p2.x - p1.x)
        sx == IF p1.x < p2.x THEN 1 ELSE -1
        dy == -Abs(p2.y - p1.y)
        sy == IF p1.y < p2.y THEN 1 ELSE -1
    IN line_loop(Store(m, p1, c), p1, p2, dx, sx, dy, sy, dx + dy, c)

\* Image::rect_boudary
rect_boudary(m, p, s, c) ==
    LET l1 == line(m,  vec2(p.x, p.y),             vec2(p.x + s.x, p.y),       c)
        l2 == line(l1, vec2(p.x + s.x, p.y),       vec2(p.x + s.x, p.y + s.y), c)
        l3 == line(l2, vec2(p.x + s.x, p.y + s.y), vec2(p.x, p.y + s.y),       c)
    IN line(l3, vec2(p.x, p.y + s.y), vec2(p.x, p.y), c)

\* Image::rect and Image::image: the origin and size after clamping a negative origin
ClampOrigin(p, s) ==
    [p |-> vec2(IF p.x < 0 THEN 0 ELSE p.x, IF p.y < 0 THEN 0 ELSE p.y),
     s |-> vec2(IF p.x < 0 THEN s.x + p.x - 1 ELSE s.x,
                IF p.y < 0 THEN s.y + p.y - 1 ELSE s.y)]

\* Image::rect, the inner loop over i
RECURSIVE rect_row(_, _, _, _, _, _, _)
rect_row(m, p, s, dx, y, i, c) ==
    IF m.panic \/ i >= Abs(s.x) THEN m
    ELSE LET x == p.x + i * dx
         IN IF x >= m.size.x THEN m
            ELSE rect_row(Store(m, vec2(x, y), c), p, s, dx, y, i + 1, c)

\* Image::rect, the outer loop over j
RECURSIVE rect_rows(_, _, _, _, _, _, _)
rect_rows_Inclusive(m, p, s, dx, dy, j, c) ==
    IF m.panic \/ j > Abs(s.y) THEN m
    ELSE LET y == p.y + j * dy
         IN IF y >= m.size.y THEN m
            ELSE rect_rows(rect_row(m, p, s, dx, y, 0, c), p, s, dx, dy, j + 1, c)

rect_rows(m, p, s, dx, dy, j, c) ==
    IF m.panic \/ j >= Abs(s.y) THEN m
    ELSE LET y == p.y + j * dy
         IN IF y >= m.size.y THEN m
            ELSE rect_rows(rect_row(m, p, s, dx, y, 0, c), p, s, dx, dy, j + 1, c)

\* Image::rect
rect(m, p0, s0, c) ==
    LET ps == ClampOrigin(p0, s0)
        dx == IF ps.s.x > 0 THEN 1 ELSE -1
        dy == IF ps.s.y > 0 THEN 1 ELSE -1
    IN rect_rows(m, ps.p, ps.s, dx, dy, 0, c)

\* Image::plot_ellipse_points
plot_ellipse_points(m, center, pos, c) ==
    LET a1 == Store(m,  vec2(center.x + pos.x, center.y + pos.y), c)
        a2 == Store(a1, vec2(center.x + pos.x, center.y - pos.y), c)
        a3 == Store(a2, vec2(center.x - pos.x, center.y + pos.y), c)
    IN Store(a3, vec2(center.x - pos.x, center.y - pos.y), c)

\* Image::ellipse_boundary, the first region; e = [m, x, y, p, dpe, dpse]
RECURSIVE ellipse_region1(_, _, _, _, _)
ellipse_region1(e, center, a, b, c) ==
    IF e.dpse < 2 * a * a + 3 * b * b
    THEN LET d2pe  == 2 * b * b
             d2pse == d2pe + 2 * a * a
             east  == e.p < 0
             x1    == e.x + 1
             y1    == IF east THEN e.y ELSE e.y - 1
         IN ellipse_region1(
                [m    |-> plot_ellipse_points(e.m, center, vec2(x1, y1), c),
                 x    |-> x1,
                 y    |-> y1,
                 p    |-> IF east THEN e.p + e.dpe ELSE e.p + e.dpse,
                 dpe  |-> e.dpe + d2pe,
                 dpse |-> IF east THEN e.dpse + d2pe ELSE e.dpse + d2pse],
                center, a, b, c)
    ELSE e

\* Image::ellipse_boundary, the second region; e = [m, x, y, p, dpse]
RECURSIVE ellipse_region2(_, _, _, _, _, _, _)
ellipse_region2(e, center, dps, d2ps, d2pse, a, c) ==
    IF e.y > 0
    THEN LET south == e.p > 0
             x1    == IF south THEN e.x ELSE e.x + 1
             y1    == e.y - 1
         IN ellipse_region2(
                [m    |-> plot_ellipse_points(e.m, center, vec2(x1, y1), c),
                 x    |-> x1,
                 y    |-> y1,
                 p    |-> IF south THEN e.p + dps ELSE e.p + e.dpse,
                 dpse |-> IF south THEN e.dpse + d2ps ELSE e.dpse + d2pse],
                center, dps, d2ps, d2pse, a, c)
    ELSE e

\* Image::ellipse_boundary
ellipse_boundary(m, center, size, c) ==
    LET a     == TruncDiv(size.x, 2)
        b     == TruncDiv(size.y, 2)
        p0    == b * b + TruncDiv(a * a * (1 - 4 * b) - 2, 4)
        dpe0  == 3 * b * b
        dpse0 == dpe0 - 2 * a * a * (b - 1)
        d2pse == 2 * b * b + 2 * a * a
        r1    == ellipse_region1(
                     [m |-> plot_ellipse_points(m, center, vec2(0, b), c),
                      x |-> 0, y |-> b, p |-> p0, dpe |-> dpe0, dpse |-> dpse0],
                     center, a, b, c)
        p1    == r1.p - TruncDiv(a * a * (4 * r1.y - 3) + b * b * (4 * r1.x + 3) + 2, 4)
        r2    == ellipse_region2(
                     [m |-> r1.m, x |-> r1.x, y |-> r1.y, p |-> p1,
                      dpse |-> 2 * b * b + 3 * a * a],
                     center, a * a * (3 - 2 * r1.y), 2 * a * a, d2pse, a, c)
    IN r2.m

\* Image::image, the inner loop over i
RECURSIVE image_row(_, _, _, _, _, _, _, _, _, _)
image_row(m, src, p, s, offset, dx, y, src_y, i, alpha) ==
    IF m.panic \/ i >= Abs(s.x) THEN m
    ELSE LET x     == p.x + i * dx
             src_x == offset.x + i
             v     == Index(src, vec2(src_x, src_y))
         IN IF x >= m.size.x \/ src_x >= src.size.x THEN m
            ELSE IF v = PanicRead THEN [m EXCEPT !.panic = TRUE]
            ELSE IF alpha # NoColor /\ alpha = v
            THEN image_row(m, src, p, s, offset, dx, y, src_y, i + 1, alpha)
            ELSE image_row(Store(m, vec2(x, y), v), src, p, s, offset, dx, y, src_y,
                           i + 1, alpha)

\* Image::image, the outer loop over j
RECURSIVE image_rows(_, _, _, _, _, _, _, _, _)
image_rows(m, src, p, s, offset, dx, dy, j, alpha) ==
    IF m.panic \/ j >= Abs(s.y) THEN m
    ELSE LET y     == p.y + j * dy
             src_y == offset.y + j
         IN IF y >= m.size.y \/ src_y >= src.size.y THEN m
            ELSE image_rows(image_row(m, src, p, s, offset, dx, y, src_y, 0, alpha),
                            src, p, s, offset, dx, dy, j + 1, alpha)

\* Image::image
image_IgnoreAlpha(m, src, pos, size, offset, alpha) ==
    LET ps == ClampOrigin(pos, size)
        dx == IF ps.s.x > 0 THEN 1 ELSE -1
        dy == IF ps.s.y > 0 THEN 1 ELSE -1
    IN image_rows(m, src, ps.p, ps.s, offset, dx, dy, 0, NoColor)

image(m, src, pos, size, offset, alpha) ==
    LET ps == ClampOrigin(pos, size)
        dx == IF ps.s.x > 0 THEN 1 ELSE -1
        dy == IF ps.s.y > 0 THEN 1 ELSE -1
    IN image_rows(m, src, ps.p, ps.s, offset, dx, dy, 0, alpha)

\* Image::whole_image_alpha
whole_image_alpha(m, src, pos, alpha) == image(m, src, pos, src.size, ZERO, alpha)

\* Image::whole_image
whole_image(m, src, pos) == image(m, src, pos, src.size, ZERO, NoColor)

(***************************************************************************)
(* The Image harness: SpecImg and SpecDraw.                                *)
(***************************************************************************)
Range(lo, hi) == {vec2(x, y) : x \in lo.x..hi.x, y \in lo.y..hi.y}

\* sizes, points, extents and colours the operations are called with
SeqSizes == Range(ZERO, vec2(SeqW, 2))

DrawSizes == Range(ZERO, vec2(MaxW, MaxH)) \cup {vec2(5, 1)}

Sizes == IF phase = "seq" THEN SeqSizes ELSE DrawSizes

Pts ==
    IF phase = "seq"
    THEN {vec2(-1, 0), ZERO, vec2(1, 1), vec2(SeqW, 0), vec2(0, 2)}
    ELSE Range(vec2(-1, -1), vec2(MaxW, MaxH)) \cup Range(vec2(4, 0), vec2(5, 0))

Exts ==
    IF phase = "seq"
    THEN {vec2(-1, -1), vec2(0, 1), vec2(1, 2), vec2(SeqW, 1)}
    ELSE Range(vec2(-MaxW, -MaxH), vec2(MaxW, MaxH))

EllipseExts ==
    IF phase = "seq"
    THEN {ZERO, vec2(1, 2), vec2(SeqW, 2)}
    ELSE Range(vec2(-MaxW, -MaxH), vec2(MaxW, MaxH))
         \cup {vec2(2 * MaxW, 2 * MaxH), vec2(2 * MaxW, 2), vec2(2, 2 * MaxH)}

Inks == IF phase = "seq" THEN {BLACK, RED} ELSE {GREEN, RED}

\* a source Image of size (w, h) whose pixels run through the three colours
ColorSeq == <<BLACK, GREEN, RED>>

Pattern(w, h, k) ==
    [data |-> [n \in 1..(w * h) |-> ColorSeq[((n + k + ((n - 1) \div Max(w, 1))) % 3) + 1]],
     size |-> vec2(w, h)]

Sources ==
    IF phase = "seq"
    THEN {Pattern(2, 1, 0), Pattern(1, 2, 1)}
    ELSE {Pattern(w, h, k) : w \in 0..2, h \in 0..2, k \in 0..2}

\* the sources of Image::image, called with every size and offset
SubSources == {Pattern(2, 2, 0), Pattern(1, 2, 1)}

Offsets == IF phase = "seq" THEN {ZERO, vec2(1, 0)} ELSE {vec2(-1, 0), ZERO, vec2(1, 0), vec2(0, 1)}

BlitExts == IF phase = "seq" THEN {vec2(1, 1), vec2(2, -1)} ELSE Range(vec2(-1, -1), vec2(2, 2))

BlitPts == IF phase = "seq" THEN {vec2(-1, 0), ZERO} ELSE Range(vec2(-1, -1), vec2(1, 1))

EmptyImage == new(0, 0)

Op(name, a, b, off, c, src) ==
    [name |-> name, a |-> a, b |-> b, off |-> off, c |-> c, src |-> src,
     wr |-> <<>>, panic |-> FALSE]

\* the harness may call the next operation
CanCall == phase # "done" /\ ~op.panic

\* the operation o has run and left the machine m; within a sequence only the
\* name and the outcome of the last operation are kept
Commit(m, o) ==
    /\ img' = ImageOf(m)
    /\ TEMP' = m.temp
    /\ pre' = IF phase = "seq" THEN EmptyImage ELSE img
    /\ op' = IF phase = "seq"
             THEN [Op(o.name, ZERO, ZERO, ZERO, NoColor, EmptyImage) EXCEPT !.panic = m.panic]
             ELSE [o EXCEPT !.wr = m.wr, !.panic = m.panic]
    /\ phase' = IF phase = "ready" THEN "done" ELSE phase
    /\ UNCHANGED rdrvars

ImgRawResize ==
    /\ CanCall
    /\ \E ns \in Sizes :
        /\ Commit(raw_resize(Machine(img, TEMP), ns), Op("raw_resize", ns, ZERO, ZERO, NoColor, EmptyImage))

ImgResize ==
    /\ CanCall
    /\ \E ns \in Sizes :
        /\ Commit(resize(Machine(img, TEMP), ns), Op("resize", ns, ZERO, ZERO, NoColor, EmptyImage))

ImgClear ==
    /\ CanCall
    /\ \E c \in Inks :
        /\ Commit(clear(Machine(img, TEMP), c), Op("clear", ZERO, ZERO, ZERO, c, EmptyImage))

ImgPoint ==
    /\ CanCall
    /\ \E p \in Pts, c \in Inks :
        /\ Commit(point(Machine(img, TEMP), p, c), Op("point", p, ZERO, ZERO, c, EmptyImage))

ImgLine ==
    /\ CanCall
    /\ \E p1 \in Pts, p2 \in Pts, c \in Inks :
        /\ Commit(line(Machine(img, TEMP), p1, p2, c), Op("line", p1, p2, ZERO, c, EmptyImage))

ImgRect ==
    /\ CanCall
    /\ \E p \in Pts, s \in Exts, c \in Inks :
        /\ Commit(rect(Machine(img, TEMP), p, s, c), Op("rect", p, s, ZERO, c, EmptyImage))

ImgRectBoudary ==
    /\ CanCall
    /\ \E p \in Pts, s \in Exts, c \in Inks :
        /\ Commit(rect_boudary(Machine(img, TEMP), p, s, c),
                  Op("rect_boudary", p, s, ZERO, c, EmptyImage))

ImgEllipseBoundary ==
    /\ CanCall
    /\ \E p \in Pts, s \in EllipseExts, c \in Inks :
        /\ Commit(ellipse_boundary(Machine(img, TEMP), p, s, c),
                  Op("ellipse_boundary", p, s, ZERO, c, EmptyImage))

ImgImage ==
    /\ CanCall
    /\ \E src \in SubSources, p \in BlitPts, s \in BlitExts, off \in Offsets, a \in {NoColor, RED} :
        /\ Commit(image(Machine(img, TEMP), src, p, s, off, a), Op("image", p, s, off, a, src))

ImgWholeImage ==
    /\ CanCall
    /\ \E src \in Sources, p \in BlitPts :
        /\ Commit(whole_image(Machine(img, TEMP), src, p),
                  Op("whole_image", p, src.size, ZERO, NoColor, src))

ImgWholeImageAlpha ==
    /\ CanCall
    /\ \E src \in Sources, p \in BlitPts, a \in Colors :
        /\ Commit(whole_image_alpha(Machine(img, TEMP), src, p, a),
                  Op("whole_image_alpha", p, src.size, ZERO, a, src))

NextImg ==
    \/ ImgRawResize
    \/ ImgResize
    \/ ImgClear
    \/ ImgPoint
    \/ ImgLine
    \/ ImgRect
    \/ ImgRectBoudary
    \/ ImgEllipseBoundary
    \/ ImgImage
    \/ ImgWholeImage
    \/ ImgWholeImageAlpha

(***************************************************************************)
(* The terminal, as far as the renderer drives it: a grid of character     *)
(* cells, each showing a top and a bottom colour, a cursor and the active  *)
(* foreground and background colours.                                      *)
(***************************************************************************)
\* the characters print! writes (rds.rs:222-228)
SPACE == 32
LOWER_HALF == 9604
UPPER_HALF == 9600
FULL_BLOCK == 9608

Token(t, a, b) == [t |-> t, a |-> a, b |-> b]

Home == Token("home", 0, 0)

SetFore(c) == Token("fg", c, 0)

SetBack(c) == Token("bg", c, 0)

MoveTo(r, c) == Token("cup", r, c)

Glyph(g) == Token("glyph", g, 0)

Bell == Token("bell", 0, 0)

\* a cell nothing has been written to since the terminal took its size
UnknownCell == <<NoColor, NoColor>>

TermOfSize(t, size) ==
    [t EXCEPT !.w = size.x, !.h = size.y \div 2, !.row = 1, !.col = 1,
              !.cells = [rc \in (1..(size.y \div 2)) \X (1..size.x) |-> UnknownCell]]

\* what a glyph shows under the active colours
Shown(g, fg, bg) ==
    CASE g = SPACE      -> <<bg, bg>>
      [] g = LOWER_HALF -> <<bg, fg>>
      [] g = UPPER_HALF -> <<fg, bg>>
      [] OTHER          -> <<fg, fg>>

\* the terminal writes a glyph at the cursor: wrap at the right margin, scroll at the bottom
TermGlyph(t, g) ==
    IF t.w = 0 \/ t.h = 0 THEN t
    ELSE LET wrap   == t.col > t.w
             r0     == IF wrap THEN t.row + 1 ELSE t.row
             c0     == IF wrap THEN 1 ELSE t.col
             scroll == r0 > t.h
             r1     == IF scroll THEN t.h ELSE r0
             cells0 == IF scroll
                       THEN [rc \in DOMAIN t.cells |->
                                IF rc[1] < t.h THEN t.cells[<<rc[1] + 1, rc[2]>>]
                                ELSE <<t.bg, t.bg>>]
                       ELSE t.cells
         IN [t EXCEPT !.cells = [cells0 EXCEPT ![<<r1, c0>>] = Shown(g, t.fg, t.bg)],
                      !.row = r1, !.col = c0 + 1]

TermToken(t, k) ==
    CASE k.t = "home"  -> [t EXCEPT !.row = 1, !.col = 1]
      [] k.t = "fg"    -> [t EXCEPT !.fg = k.a]
      [] k.t = "bg"    -> [t EXCEPT !.bg = k.a]
      [] k.t = "cup"   -> [t EXCEPT !.row = Max(1, Min(k.a, t.h)), !.col = Max(1, Min(k.b, t.w))]
      [] k.t = "glyph" -> TermGlyph(t, k.a)
      [] OTHER         -> [t EXCEPT !.bells = @ + 1]

RECURSIVE TermApply(_, _)
TermApply(t, toks) ==
    IF toks = <<>> THEN t ELSE TermApply(TermToken(t, Head(toks)), Tail(toks))

(***************************************************************************)
(* PushFrame (rds.rs:179-234).  A printer state is                         *)
(* st = [back, fore, skiped, out]: the cached colours, the flag and the    *)
(* tokens printed so far.                                                  *)
(***************************************************************************)
\* rds.rs:190, the skip test
unchanged_cell_Never(scr, prv, pos1, pos2) == FALSE

unchanged_cell(scr, prv, pos1, pos2) ==
    /\ scr.size = prv.size
    /\ Index(scr, pos1) = Index(prv, pos1)
    /\ Index(scr, pos2) = Index(prv, pos2)

\* rds.rs:195-213, update color
update_color(st, t, b) ==
    IF t # st.back /\ t # st.fore /\ b = st.back
    THEN [st EXCEPT !.fore = t, !.out = Append(@, SetFore(t))]
    ELSE IF t # st.back /\ t # st.fore /\ b = st.fore
    THEN [st EXCEPT !.back = t, !.out = Append(@, SetBack(t))]
    ELSE IF b # st.back /\ b # st.fore /\ t = st.back
    THEN [st EXCEPT !.fore = b, !.out = Append(@, SetFore(b))]
    ELSE IF b # st.back /\ b # st.fore /\ t = st.fore
    THEN [st EXCEPT !.back = b, !.out = Append(@, SetBack(b))]
    ELSE IF t # st.back /\ t # st.fore /\ b # st.back /\ b # st.fore
    THEN [st EXCEPT !.fore = t, !.back = b, !.out = @ \o <<SetFore(t), SetBack(b)>>]
    ELSE st

\* rds.rs:215-218, the owed cursor jump
owed_jump_Never(st, i, j) == [st EXCEPT !.skiped = FALSE]

owed_jump_PixelRow(st, i, j) ==
    IF st.skiped
    THEN [st EXCEPT !.skiped = FALSE, !.out = Append(@, MoveTo(j + 1, i + 1))]
    ELSE st

owed_jump(st, i, j) ==
    IF st.skiped
    THEN [st EXCEPT !.skiped = FALSE, !.out = Append(@, MoveTo((j \div 2) + 1, i + 1))]
    ELSE st

\* rds.rs:220-229, print pixel
print_pixel(st, t, b) ==
    IF t = st.back /\ b = st.back THEN [st EXCEPT !.out = Append(@, Glyph(SPACE))]
    ELSE IF t = st.back /\ b = st.fore THEN [st EXCEPT !.out = Append(@, Glyph(LOWER_HALF))]
    ELSE IF t = st.fore /\ b = st.back THEN [st EXCEPT !.out = Append(@, Glyph(UPPER_HALF))]
    ELSE IF t = st.fore /\ b = st.fore THEN [st EXCEPT !.out = Append(@, Glyph(FULL_BLOCK))]
    ELSE st

\* rds.rs:187-229, the body of the inner loop for the cell of column i and rows j, j + 1
push_cell_NoSkip(st, scr, prv, i, j) ==
    print_pixel(owed_jump(update_color(st, Index(scr, vec2(i, j)), Index(scr, vec2(i, j + 1))),
                          i, j),
                Index(scr, vec2(i, j)), Index(scr, vec2(i, j + 1)))

push_cell(st, scr, prv, i, j) ==
    LET pos1 == vec2(i, j)
        pos2 == vec2(i, j + 1)
    IN IF unchanged_cell(scr, prv, pos1, pos2)
       THEN [st EXCEPT !.skiped = TRUE]
       ELSE print_pixel(owed_jump(update_color(st, Index(scr, pos1), Index(scr, pos2)), i, j),
                        Index(scr, pos1), Index(scr, pos2))

\* rds.rs:185-231, the two loops
RECURSIVE push_cells(_, _, _, _, _, _)
push_cells(st, scr, prv, ssize, j, i) ==
    IF j >= ssize.y THEN st
    ELSE IF i >= ssize.x THEN push_cells(st, scr, prv, ssize, j + 2, 0)
    ELSE push_cells(push_cell(st, scr, prv, i, j), scr, prv, ssize, j, i + 1)

\* rds.rs:181-231: everything one PushFrame prints
push_frame(scr, prv, ssize, bk, fr) ==
    push_cells([back |-> bk, fore |-> fr, skiped |-> FALSE, out |-> <<Home>>],
               scr, prv, ssize, 0, 0)

\* how many of the tokens are of the kinds
RECURSIVE Count(_, _)
Count(toks, kinds) ==
    IF toks = <<>> THEN 0
    ELSE (IF Head(toks).t \in kinds THEN 1 ELSE 0) + Count(Tail(toks), kinds)

\* glyphs and colour escapes among the tokens
Emitted(toks) == Count(toks, {"glyph", "fg", "bg"})

(***************************************************************************)
(* The channel (mpsc::channel, rds.rs:145) and the barrier                 *)
(* (Barrier::new(2), rds.rs:146).                                          *)
(***************************************************************************)
BarrierN_One == 2 - 1

BarrierN_Three == 2 + 1

BarrierN == 2

Directive(kind, a, b, off, c) ==
    [kind |-> kind, a |-> a, b |-> b, off |-> off, c |-> c, seq |-> nsent + 1,
     obs |-> observed]

\* Sender::send returns Err once the rendering thread has ended and dropped the Receiver
send_fails_Never == FALSE

send_fails == epc = "dead"

\* Sender::send
Send(d) ==
    /\ chan' = Append(chan, d)
    /\ nsent' = nsent + 1

\* Receiver::recv on a channel that holds a directive
recv_Newest(q) == [d |-> q[Len(q)], rest |-> SubSeq(q, 1, Len(q) - 1)]

recv(q) == [d |-> Head(q), rest |-> Tail(q)]

(***************************************************************************)
(* The caller thread: Renderer's public API (rds.rs:294-435).              *)
(***************************************************************************)
\* Renderer::get_size: the terminal sizes the ioctl may report
TermSizes == {ZERO, vec2(1, 2), vec2(MaxCols, 2 * MaxRows)}

\* the images the caller may hand to the draw_image family
SharedImages == {Pattern(2, 2, 1)}

Called(name, res) ==
    /\ call' = [op |-> name, res |-> res]
    /\ ncalls' = ncalls + 1

MayCall == cpc = "idle" /\ ncalls < MaxCalls

\* a panic unwinds the caller thread
Panics(name) ==
    /\ cpc' = "panicked"
    /\ Called(name, "panic")

\* Renderer::can_draw does not panic
can_draw_Always == TRUE

can_draw == building_frame

\* Renderer::begin_draw, rds.rs:308: the size differs from the one sent last
size_changed_Always(new_size) == TRUE

size_changed(new_size) == prev_screen_size # new_size

\* Renderer::begin_draw, rds.rs:303-311
BeginDraw ==
    /\ MayCall
    /\ IF building_frame
       THEN /\ Panics("begin_draw")
            /\ UNCHANGED <<building_frame, prev_screen_size, chan, nsent, observed>>
       ELSE \E new_size \in TermSizes :
            /\ building_frame' = TRUE
            /\ observed' = new_size
            /\ IF size_changed(new_size)
               THEN IF send_fails
                    THEN /\ Panics("begin_draw")
                         /\ UNCHANGED <<prev_screen_size, chan, nsent>>
                    ELSE /\ Send(Directive("UpdateScreenSize", new_size, ZERO, ZERO, NoColor))
                         /\ prev_screen_size' = new_size
                         /\ cpc' = "bd_send"
                         /\ Called("begin_draw", "pending")
               ELSE /\ cpc' = "bd_send"
                    /\ Called("begin_draw", "pending")
                    /\ UNCHANGED <<prev_screen_size, chan, nsent>>
    /\ UNCHANGED <<clgen, shared, bcount, bgen, enginevars, outvars, imgvars, TEMP,
                   termios, defaults, tty>>

\* Renderer::begin_draw, rds.rs:313
BeginDrawSend ==
    /\ cpc = "bd_send"
    /\ IF send_fails
       THEN /\ cpc' = "panicked"
            /\ call' = [call EXCEPT !.res = "panic"]
            /\ UNCHANGED <<chan, nsent>>
       ELSE /\ Send(Directive("BeginFrame", ZERO, ZERO, ZERO, NoColor))
            /\ cpc' = "bd_wait"
            /\ UNCHANGED call
    /\ UNCHANGED <<building_frame, prev_screen_size, ncalls, clgen, shared, bcount, bgen,
                   enginevars, outvars, imgvars, TEMP, ttyvars>>

\* Renderer::begin_draw, rds.rs:314: Barrier::wait, arriving
BeginDrawWait ==
    /\ cpc = "bd_wait"
    /\ IF bcount + 1 >= BarrierN
       THEN /\ bcount' = 0
            /\ bgen' = bgen + 1
            /\ cpc' = "idle"
            /\ call' = [call EXCEPT !.res = "returned"]
            /\ UNCHANGED clgen
       ELSE /\ bcount' = bcount + 1
            /\ clgen' = bgen
            /\ cpc' = "bd_blocked"
            /\ UNCHANGED <<bgen, call>>
    /\ UNCHANGED <<building_frame, prev_screen_size, ncalls, shared, chan, nsent,
                   enginevars, outvars, imgvars, TEMP, ttyvars>>

\* Renderer::begin_draw, rds.rs:314: Barrier::wait, released by the other thread
BeginDrawReturn ==
    /\ cpc = "bd_blocked"
    /\ bgen # clgen
    /\ cpc' = "idle"
    /\ call' = [call EXCEPT !.res = "returned"]
    /\ UNCHANGED <<building_frame, prev_screen_size, ncalls, clgen, shared, syncvars,
                   enginevars, outvars, imgvars, TEMP, ttyvars>>

\* Renderer::end_draw
EndDraw ==
    /\ MayCall
    /\ IF ~building_frame
       THEN /\ Panics("end_draw")
            /\ UNCHANGED <<building_frame, chan, nsent>>
       ELSE /\ building_frame' = FALSE
            /\ IF send_fails
               THEN /\ Panics("end_draw")
                    /\ UNCHANGED <<chan, nsent>>
               ELSE /\ Send(Directive("PushFrame", ZERO, ZERO, ZERO, NoColor))
                    /\ Called("end_draw", "ok")
                    /\ UNCHANGED cpc
    /\ UNCHANGED <<prev_screen_size, clgen, shared, bcount, bgen, enginevars, outvars,
                   imgvars, TEMP, ttyvars>>

\* a drawing primitive: can_draw, then send
Primitive(name, d) ==
    /\ MayCall
    /\ IF ~can_draw \/ send_fails
       THEN /\ Panics(name)
            /\ UNCHANGED <<chan, nsent>>
       ELSE /\ Send(d)
            /\ Called(name, "ok")
            /\ UNCHANGED cpc
    /\ UNCHANGED <<building_frame, prev_screen_size, clgen, shared, bcount, bgen,
                   enginevars, outvars, imgvars, TEMP, ttyvars>>

\* Renderer::clear_screen
ClearScreen ==
    \E c \in {BLACK, RED} :
        Primitive("clear_screen", Directive("ClearScreen", ZERO, ZERO, ZERO, c))

\* Renderer::draw_line
DrawLine ==
    \E c \in {RED} :
        Primitive("draw_line", Directive("DrawLine", ZERO, vec2(1, 1), ZERO, c))

\* Renderer::draw_rect
DrawRect ==
    \E c \in {GREEN} :
        Primitive("draw_rect", Directive("DrawRect", vec2(0, 1), vec2(2, 1), ZERO, c))

\* Renderer::draw_rect_boundary
DrawRectBoundary ==
    \E c \in {RED} :
        Primitive("draw_rect_boundary",
                  Directive("DrawRectBoudary", ZERO, vec2(1, 3), ZERO, c))

\* Renderer::draw_ellipse_boundary
DrawEllipseBoundary ==
    \E c \in {GREEN} :
        Primitive("draw_ellipse_boundary",
                  Directive("DrawEllipseBoudary", vec2(0, 1), vec2(2, 2), ZERO, c))

\* Renderer::draw_point
DrawPoint ==
    \E p \in {vec2(1, 1), vec2(0, 3)}, c \in {GREEN} :
        Primitive("draw_point", Directive("DrawPoint", p, ZERO, ZERO, c))

\* Renderer::draw_image
DrawImage ==
    \E alpha \in {GREEN} :
        Primitive("draw_image", Directive("DrawImage", ZERO, vec2(1, 2), ZERO, alpha))

\* Renderer::draw_whole_image_alpha
DrawWholeImageAlpha ==
    \E alpha \in {BLACK} :
        Primitive("draw_whole_image_alpha",
                  Directive("DrawWholeImageAlpha", ZERO, ZERO, ZERO, alpha))

\* Renderer::draw_whole_image
DrawWholeImage ==
    \E pos \in {vec2(1, 0)} :
        Primitive("draw_whole_image", Directive("DrawWholeImage", pos, ZERO, ZERO, NoColor))

\* Renderer::ring_bell
RingBell ==
    /\ MayCall
    /\ IF ~can_draw
       THEN /\ Panics("ring_bell")
            /\ UNCHANGED outbuf
       ELSE /\ outbuf' = Append(outbuf, Bell)
            /\ Called("ring_bell", "ok")
            /\ UNCHANGED cpc
    /\ UNCHANGED <<building_frame, prev_screen_size, clgen, shared, syncvars, enginevars,
                   term, pushes, imgvars, TEMP, ttyvars>>

\* the mode of the terminal when the Renderer is first used (rds.rs:123-130)
OriginalMode ==
    [c_lflag |-> {"ECHO", "ICANON", "ISIG", "IEXTEN"}, c_cc |-> [VMIN |-> 4, VTIME |-> 2]]

\* Renderer::init, rds.rs:132-134: the mode init sets
RawMode(t) ==
    [c_lflag |-> t.c_lflag \ {"ECHO", "ICANON", "ISIG"}, c_cc |-> [VMIN |-> 1, VTIME |-> 0]]

\* Input::disable_mouse
disable_mouse(t) == [t EXCEPT !.mouse = FALSE]

\* Drop for Renderer, rds.rs:444-445: the settings are put back into the struct
restored_termios == [c_lflag |-> defaults.c_lflag, c_cc |-> defaults.c_cc]

\* Drop for Renderer, rds.rs:447-448: the escapes that show the cursor and leave the
\* alternate screen
teardown(t) == [t EXCEPT !.cursor = TRUE, !.alt = FALSE]

\* the tokens of a frame among those written: cursor escapes and glyphs
FrameTokens(toks) == Count(toks, {"home", "cup", "glyph"})

\* stdout is flushed: the terminal receives the buffered tokens
Flush ==
    /\ term' = TermApply(term, outbuf)
    /\ outbuf' = <<>>

\* Renderer::exit: RENDERER = None drops the Renderer; Drop for Renderer, rds.rs:444-451,
\* up to and including the flush
Exit ==
    /\ MayCall
    /\ termios' = restored_termios
    /\ tty' = teardown(tty)
    /\ Flush
    /\ cpc' = "exiting"
    /\ Called("exit", "pending")
    /\ UNCHANGED <<building_frame, prev_screen_size, clgen, shared, syncvars, enginevars,
                   pushes, defaults, observed, imgvars, TEMP>>

\* Drop for Renderer, rds.rs:452-454: Input::disable_mouse, then process::exit, which
\* flushes stdout and ends every thread
ProcessExit ==
    /\ cpc = "exiting"
    /\ tty' = disable_mouse(tty)
    /\ Flush
    /\ pushes' = [pushes EXCEPT !.late = @ \/ FrameTokens(outbuf) > 0]
    /\ cpc' = "exited"
    /\ epc' = "exited"
    /\ call' = [call EXCEPT !.res = "exited"]
    /\ UNCHANGED <<building_frame, prev_screen_size, ncalls, clgen, shared, syncvars, elgen,
                   screen_size, screen, prev_screen, back, fore, napplied, last,
                   termios, defaults, observed, imgvars, TEMP>>

\* the caller thread has unwound: the runtime flushes stdout and ends the process;
\* RENDERER is a static, which is not dropped
ProcessAbort ==
    /\ cpc = "panicked"
    /\ cpc' = "aborted"
    /\ epc' = "exited"
    /\ Flush
    /\ UNCHANGED <<building_frame, prev_screen_size, call, ncalls, clgen, shared, syncvars,
                   elgen, screen_size, screen, prev_screen, back, fore, napplied, last,
                   pushes, ttyvars, imgvars, TEMP>>

(***************************************************************************)
(* The rendering thread (rds.rs:149-237).                                  *)
(***************************************************************************)
\* rds.rs:150-156: the thread starts
SrvStart ==
    /\ epc = "start"
    /\ \E size \in TermSizes :
        /\ screen_size' = size
        /\ term' = TermOfSize(term, size)
    /\ outbuf' = outbuf \o <<SetBack(back), SetFore(fore)>>
    /\ epc' = "recv"
    /\ UNCHANGED <<elgen, screen, prev_screen, back, fore, napplied, last, pushes,
                   callervars, syncvars, imgvars, TEMP, ttyvars>>

\* rds.rs:160: recv returns a directive of this kind
Receives(kind) ==
    /\ epc = "recv"
    /\ chan # <<>>
    /\ recv(chan).d.kind = kind

\* the directive at hand
Cur == recv(chan).d

\* the directive has left the channel
Taken ==
    /\ chan' = recv(chan).rest
    /\ napplied' = napplied + 1
    /\ last' = [kind |-> Cur.kind, seq |-> Cur.seq, obs |-> Cur.obs]
    /\ UNCHANGED <<nsent, bcount, bgen, elgen, callervars, imgvars, ttyvars>>

\* a drawing directive has left the machine m; a panic ends the thread
Drawn(m) ==
    /\ Taken
    /\ screen' = ImageOf(m)
    /\ TEMP' = m.temp
    /\ epc' = IF m.panic THEN "dead" ELSE epc
    /\ UNCHANGED <<screen_size, prev_screen, back, fore, outvars>>

SrvDrawLine ==
    /\ Receives("DrawLine")
    /\ Drawn(line(Machine(screen, TEMP), Cur.a, Cur.b, Cur.c))

SrvDrawRect ==
    /\ Receives("DrawRect")
    /\ Drawn(rect(Machine(screen, TEMP), Cur.a, Cur.b, Cur.c))

SrvDrawRectBoudary ==
    /\ Receives("DrawRectBoudary")
    /\ Drawn(rect_boudary(Machine(screen, TEMP), Cur.a, Cur.b, Cur.c))

SrvDrawEllipseBoudary ==
    /\ Receives("DrawEllipseBoudary")
    /\ Drawn(ellipse_boundary(Machine(screen, TEMP), Cur.a, Cur.b, Cur.c))

SrvDrawPoint ==
    /\ Receives("DrawPoint")
    /\ Drawn(point(Machine(screen, TEMP), Cur.a, Cur.c))

SrvDrawImage ==
    /\ Receives("DrawImage")
    /\ Drawn(image(Machine(screen, TEMP), shared, Cur.a, Cur.b, Cur.off, Cur.c))

SrvDrawWholeImageAlpha ==
    /\ Receives("DrawWholeImageAlpha")
    /\ Drawn(whole_image_alpha(Machine(screen, TEMP), shared, Cur.a, Cur.c))

SrvDrawWholeImage ==
    /\ Receives("DrawWholeImage")
    /\ Drawn(whole_image(Machine(screen, TEMP), shared, Cur.a))

SrvClearScreen ==
    /\ Receives("ClearScreen")
    /\ Drawn(clear(Machine(screen, TEMP), Cur.c))

\* rds.rs:173-176; the terminal shows nothing known once it has taken the new size
SrvUpdateScreenSize ==
    /\ Receives("UpdateScreenSize")
    /\ Taken
    /\ screen_size' = Cur.a
    /\ screen' = ImageOf(raw_resize(Machine(screen, TEMP), Cur.a))
    /\ term' = TermOfSize(term, Cur.a)
    /\ UNCHANGED <<epc, prev_screen, back, fore, outbuf, pushes, TEMP>>

\* rds.rs:178: Barrier::wait, arriving
SrvBeginFrame ==
    /\ Receives("BeginFrame")
    /\ chan' = recv(chan).rest
    /\ napplied' = napplied + 1
    /\ last' = [kind |-> Cur.kind, seq |-> Cur.seq, obs |-> Cur.obs]
    /\ IF bcount + 1 >= BarrierN
       THEN /\ bcount' = 0
            /\ bgen' = bgen + 1
            /\ UNCHANGED <<epc, elgen>>
       ELSE /\ bcount' = bcount + 1
            /\ elgen' = bgen
            /\ epc' = "barrier"
            /\ UNCHANGED bgen
    /\ UNCHANGED <<nsent, screen_size, screen, prev_screen, back, fore, callervars, outvars,
                   imgvars, TEMP, ttyvars>>

\* rds.rs:178: Barrier::wait, released by the other thread
SrvBarrierReturn ==
    /\ epc = "barrier"
    /\ bgen # elgen
    /\ epc' = "recv"
    /\ UNCHANGED <<elgen, screen_size, screen, prev_screen, back, fore, napplied, last,
                   callervars, syncvars, outvars, imgvars, TEMP, ttyvars>>

\* rds.rs:179-181: PushFrame is at hand and the cursor-home escape is printed; the
\* directive stays at the head of chan until the handler has run
SrvPushFrameHome ==
    /\ Receives("PushFrame")
    /\ epc' = "push"
    /\ outbuf' = Append(outbuf, Home)
    /\ UNCHANGED <<elgen, screen_size, screen, prev_screen, back, fore, napplied, last,
                   term, pushes, callervars, syncvars, imgvars, TEMP, ttyvars>>

\* rds.rs:183-233: the cells are printed, stdout is flushed, prev_screen is replaced
SrvPushFrame ==
    /\ epc = "push"
    /\ Taken
    /\ LET r == push_frame(screen, prev_screen, screen_size, back, fore)
       IN /\ back' = r.back
          /\ fore' = r.fore
          /\ term' = TermApply(term, outbuf \o Tail(r.out))
          /\ pushes' = [n    |-> Min(pushes.n + 1, 2),
                        last |-> Emitted(r.out),
                        prev |-> pushes.last,
                        jumps |-> Count(r.out, {"cup"}),
                        same |-> pushes.n >= 1 /\ screen = prev_screen,
                        late |-> pushes.late
                                 \/ (~tty.alt /\ FrameTokens(outbuf \o Tail(r.out)) > 0)]
    /\ outbuf' = <<>>
    /\ prev_screen' = screen
    /\ epc' = "recv"
    /\ UNCHANGED <<screen_size, screen, TEMP>>

\* rds.rs:232: the flush fails, expect panics and the thread ends
SrvPushFrameFails ==
    /\ epc = "push"
    /\ chan' = recv(chan).rest
    /\ napplied' = napplied + 1
    /\ last' = [kind |-> "PushFrameFailed", seq |-> Cur.seq, obs |-> Cur.obs]
    /\ epc' = "dead"
    /\ UNCHANGED <<nsent, bcount, bgen, elgen, screen_size, screen, prev_screen, back, fore,
                   callervars, outvars, imgvars, TEMP, ttyvars>>

(***************************************************************************)
(* Specifications.                                                         *)
(***************************************************************************)
\* the renderer right after Renderer::init has returned (rds.rs:239-251)
InitRdr ==
    /\ building_frame = FALSE
    /\ prev_screen_size = ZERO
    /\ cpc = "idle"
    /\ call = [op |-> "init", res |-> "ok"]
    /\ ncalls = 0
    /\ clgen = 0
    /\ chan = <<>>
    /\ nsent = 0
    /\ bcount = 0
    /\ bgen = 0
    /\ epc = "start"
    /\ elgen = 0
    /\ screen_size = ZERO
    /\ screen = new(0, 0)
    /\ prev_screen = new(0, 0)
    /\ back = BLACK
    /\ fore = BLACK
    /\ napplied = 0
    /\ last = [kind |-> "none", seq |-> 0, obs |-> ZERO]
    /\ outbuf = <<>>
    /\ term = [w |-> 0, h |-> 0, row |-> 1, col |-> 1, fg |-> NoColor, bg |-> NoColor,
               bells |-> 0, cells |-> [rc \in {} |-> UnknownCell]]
    /\ pushes = [n |-> 0, last |-> 0, prev |-> 0, jumps |-> 0, same |-> FALSE, late |-> FALSE]
    /\ defaults = OriginalMode
    /\ observed = ZERO
    /\ termios = RawMode(OriginalMode)
    /\ tty = [c_lflag |-> termios.c_lflag, c_cc |-> termios.c_cc,
              cursor |-> FALSE, alt |-> TRUE, mouse |-> TRUE]

\* no Image of the harness is in use
IdleImg ==
    /\ img = EmptyImage
    /\ pre = EmptyImage
    /\ op = Op("none", ZERO, ZERO, ZERO, NoColor, EmptyImage)
    /\ phase = "done"

Init ==
    /\ InitRdr
    /\ shared \in SharedImages
    /\ TEMP = BLACK
    /\ IdleImg

Next ==
    \/ BeginDraw
    \/ BeginDrawSend
    \/ BeginDrawWait
    \/ BeginDrawReturn
    \/ EndDraw
    \/ ClearScreen
    \/ DrawLine
    \/ DrawRect
    \/ DrawRectBoundary
    \/ DrawEllipseBoundary
    \/ DrawPoint
    \/ DrawImage
    \/ DrawWholeImageAlpha
    \/ DrawWholeImage
    \/ RingBell
    \/ Exit
    \/ ProcessExit
    \/ ProcessAbort
    \/ SrvStart
    \/ SrvDrawLine
    \/ SrvDrawRect
    \/ SrvDrawRectBoudary
    \/ SrvDrawEllipseBoudary
    \/ SrvDrawPoint
    \/ SrvDrawImage
    \/ SrvDrawWholeImageAlpha
    \/ SrvDrawWholeImage
    \/ SrvClearScreen
    \/ SrvUpdateScreenSize
    \/ SrvBeginFrame
    \/ SrvBarrierReturn
    \/ SrvPushFrameHome
    \/ SrvPushFrame
    \/ SrvPushFrameFails

Spec == Init /\ [][Next]_vars

\* SpecLive: the frame protocol alone, with both threads scheduled.  The caller
\* opens and closes frames and blits; the rendering thread serves what that sends.
NextLive ==
    \/ BeginDraw
    \/ BeginDrawSend
    \/ BeginDrawWait
    \/ BeginDrawReturn
    \/ EndDraw
    \/ DrawImage
    \/ SrvStart
    \/ SrvDrawImage
    \/ SrvUpdateScreenSize
    \/ SrvBeginFrame
    \/ SrvBarrierReturn
    \/ SrvPushFrameHome
    \/ SrvPushFrame
    \/ SrvPushFrameFails

\* a step of the rendering thread in SpecLive; a PushFrame at hand ends one way or the other
EngineStep ==
    \/ SrvStart
    \/ SrvDrawImage
    \/ SrvUpdateScreenSize
    \/ SrvBeginFrame
    \/ SrvBarrierReturn
    \/ SrvPushFrameHome
    \/ SrvPushFrameFails
    \/ SrvPushFrame

\* the rendering thread takes a step whenever it can, and a caller inside begin_draw
\* goes on; the caller is free never to make another call
Fairness ==
    /\ WF_vars(EngineStep)
    /\ WF_vars(BeginDrawSend)
    /\ WF_vars(BeginDrawWait)
    /\ WF_vars(BeginDrawReturn)

SpecLive == Init /\ [][NextLive]_vars /\ Fairness

\* SpecImg: Image::new, then any sequence of operations
InitImg ==
    /\ InitRdr
    /\ shared = EmptyImage
    /\ TEMP = BLACK
    /\ phase = "seq"
    /\ \E s \in SeqSizes : img = new(s.x, s.y)
    /\ pre = EmptyImage
    /\ op = Op("new", ZERO, ZERO, ZERO, NoColor, EmptyImage)

SpecImg == InitImg /\ [][NextImg]_vars

\* SpecDraw: Image::new, perhaps cleared, then one operation
InitDraw ==
    /\ InitRdr
    /\ shared = EmptyImage
    /\ TEMP = BLACK
    /\ phase = "ready"
    /\ \E s \in DrawSizes, c \in {BLACK, GREEN} :
           img = ImageOf(clear(Machine(new(s.x, s.y), BLACK), c))
    /\ pre = img
    /\ op = Op("new", img.size, ZERO, ZERO, NoColor, EmptyImage)

SpecDraw == InitDraw /\ [][NextImg]_vars

(***************************************************************************)
(* Properties.                                                             *)
(***************************************************************************)
\* the points inside an Image
InRange(im) == Range(ZERO, vec2(im.size.x - 1, im.size.y - 1))

\* p lies outside [0,w) x [0,h)
Outside(im, p) == ~(0 <= p.x /\ p.x < im.size.x /\ 0 <= p.y /\ p.y < im.size.y)

\* the pixel stored for an in-range point
Pixel(im, q) == im.data[q.x + q.y * im.size.x + 1]

\* the points the last operation handed to index_mut
Written == {op.wr[k] : k \in DOMAIN op.wr}

DrawingOps ==
    {"point", "line", "rect", "rect_boudary", "ellipse_boundary", "image", "whole_image",
     "whole_image_alpha"}

\* a call that breaks the begin_draw / end_draw protocol (exit has no protocol)
Misuse(name, frame_open) ==
    /\ name # "exit"
    /\ IF name = "begin_draw" THEN frame_open ELSE ~frame_open

\* C1: a begin_draw made while a frame is open, and an end_draw or a primitive made
\* while none is open, panics; the call enqueues no directive and writes nothing to
\* standard output or the terminal.
C1_MisuseAborts ==
    [][(ncalls' = ncalls + 1 /\ Misuse(call'.op, building_frame))
        => /\ cpc' = "panicked"
           /\ call'.res = "panic"
           /\ chan' = chan
           /\ nsent' = nsent
           /\ outbuf' = outbuf
           /\ term' = term]_vars

\* C1 witness: a nested begin_draw has panicked while the rendering thread is alive
C1_Witness ==
    /\ cpc = "panicked"
    /\ call = [op |-> "begin_draw", res |-> "panic"]
    /\ building_frame
    /\ epc # "dead"
    /\ nsent >= 2

\* C2: once begin_draw has returned, and until the caller's next call, the rendering
\* thread has taken every directive sent so far, the BeginFrame last: the channel is
\* empty and every earlier directive, the previous PushFrame included, is applied.
C2_BeginDrawDrained ==
    call = [op |-> "begin_draw", res |-> "returned"]
        => /\ chan = <<>>
           /\ napplied = nsent
           /\ last.kind = "BeginFrame"
           /\ epc # "dead"

\* C2 witness: begin_draw has returned for a frame that follows a pushed frame
C2_Witness ==
    /\ call = [op |-> "begin_draw", res |-> "returned"]
    /\ pushes.n >= 1
    /\ nsent >= 5

\* C3: the k-th directive the rendering thread applies is the k-th directive sent,
\* and the channel holds exactly the directives sent and not yet applied, in send order.
C3_SendOrderIsApplyOrder ==
    /\ last.seq = napplied
    /\ Len(chan) = nsent - napplied
    /\ \A k \in 1..Len(chan) : chan[k].seq = napplied + k

\* C3 witness: some directives are applied while two more wait in the channel
C3_Witness ==
    /\ napplied >= 3
    /\ Len(chan) >= 2
    /\ last.kind = "PushFrame"

\* the terminal shows the screen: cell (column i, row j/2) shows (screen[i,j], screen[i,j+1])
Fidelity(scr, t) ==
    \A i \in 0..(scr.size.x - 1), j \in 0..(scr.size.y - 1) :
        j % 2 = 0 =>
            t.cells[<<(j \div 2) + 1, i + 1>>] = <<Index(scr, vec2(i, j)), Index(scr, vec2(i, j + 1))>>

\* C4: right after a PushFrame has completed, every cell of the terminal shows the
\* two pixels of the screen it stands for.
C4_RenderingFidelity ==
    last.kind = "PushFrame" => Fidelity(screen, term)

\* C4 witness: a PushFrame that skipped cells, jumped the cursor and left two
\* different active colours
C4_Witness ==
    /\ last.kind = "PushFrame"
    /\ pushes.n = 2
    /\ pushes.jumps >= 1
    /\ fore # back
    /\ screen.size = vec2(MaxCols, 2 * MaxRows)

\* C5: a read outside the Image yields BLACK, also after out-of-range writes; a
\* drawing operation keeps the size and changes no in-range pixel other than those
\* it writes, and point at an out-of-range position changes no pixel at all.
C5_OutOfRange ==
    /\ \A p \in Range(vec2(-2, -2), vec2(img.size.x + 1, img.size.y + 1)) :
           Outside(img, p) => Index(img, p) = BLACK
    /\ op.name \in DrawingOps =>
           /\ ~op.panic
           /\ img.size = pre.size
           /\ Len(img.data) = Len(pre.data)
           /\ \A q \in InRange(pre) : q \notin Written => Pixel(img, q) = Pixel(pre, q)
    /\ (op.name = "point" /\ Outside(pre, op.a)) => img = pre

\* C5 witness: a line that wrote inside and outside the Image
C5_Witness ==
    /\ op.name = "line"
    /\ TEMP = RED
    /\ \E p \in Written : Outside(pre, p)
    /\ \E q \in Written : ~Outside(pre, q) /\ Pixel(img, q) = RED /\ Pixel(pre, q) # RED

\* C6: the pixel array is as long as width times height.
C6_LengthIsArea ==
    Len(img.data) = img.size.x * img.size.y

\* C6 witness: a resize that has completed on a non-empty Image
C6_Witness ==
    /\ op.name = "resize"
    /\ ~op.panic
    /\ Len(img.data) = 2 * SeqW

\* C7 as stated: of two consecutive PushFrames of identical screens the second
\* emits strictly fewer glyphs and colour escapes than the first.
C7_Original ==
    (pushes.n = 2 /\ pushes.same) => pushes.last < pushes.prev

\* C7 as amended: of two consecutive PushFrames of identical screens the second
\* emits no glyph and no colour escape, which is strictly fewer whenever the first
\* emitted any.
C7_SecondPushEmitsNothing ==
    (pushes.n = 2 /\ pushes.same)
        => /\ pushes.last = 0
           /\ pushes.jumps = 0
           /\ pushes.prev > 0 => pushes.last < pushes.prev

\* C7 witness: an identical second frame after a first that emitted something
C7_Witness ==
    /\ pushes.n = 2
    /\ pushes.same
    /\ pushes.prev > 0
    /\ last.kind = "PushFrame"

\* C8: a line between two in-range points writes max(|dx|, |dy|) + 1 distinct
\* pixels, from p1 to p2, each next to the one before, sets them to c and changes
\* no other pixel.
C8_LineInRange ==
    (op.name = "line" /\ ~Outside(pre, op.a) /\ ~Outside(pre, op.b)) =>
        LET n == Max(Abs(op.b.x - op.a.x), Abs(op.b.y - op.a.y)) + 1
        IN /\ Len(op.wr) = n
           /\ Cardinality(Written) = n
           /\ op.wr[1] = op.a
           /\ op.wr[n] = op.b
           /\ \A k \in 1..(n - 1) :
                  /\ Abs(op.wr[k + 1].x - op.wr[k].x) <= 1
                  /\ Abs(op.wr[k + 1].y - op.wr[k].y) <= 1
           /\ img.size = pre.size
           /\ \A q \in InRange(pre) :
                  Pixel(img, q) = IF q \in Written THEN op.c ELSE Pixel(pre, q)

\* C8 witness: line((0,0),(4,0),RED) on a 5x1 Image
C8_Witness ==
    /\ op.name = "line"
    /\ op.a = ZERO
    /\ op.b = vec2(4, 0)
    /\ pre = new(5, 1)
    /\ img.data = <<RED, RED, RED, RED, RED>>

\* C9: rect with a non-negative origin and a positive size sets exactly the pixels
\* p.x <= x < min(p.x + s.x, w), p.y <= y < min(p.y + s.y, h) to c.
C9_RectPositive ==
    (op.name = "rect" /\ op.a.x >= 0 /\ op.a.y >= 0 /\ op.b.x > 0 /\ op.b.y > 0) =>
        /\ img.size = pre.size
        /\ \A q \in InRange(pre) :
               Pixel(img, q) =
                   IF /\ op.a.x <= q.x /\ q.x < Min(op.a.x + op.b.x, pre.size.x)
                      /\ op.a.y <= q.y /\ q.y < Min(op.a.y + op.b.y, pre.size.y)
                   THEN op.c
                   ELSE Pixel(pre, q)

\* C9 witness: rect((0,0),(3,2),RED) on a black 3x3 Image sets exactly 6 pixels
C9_Witness ==
    /\ op.name = "rect"
    /\ op.a = ZERO
    /\ op.b = vec2(3, 2)
    /\ op.c = RED
    /\ pre = new(3, 3)
    /\ Cardinality({q \in InRange(img) : Pixel(img, q) = RED}) = 6

\* the last operation is a blit of the whole source at (0,0) with a key colour
KeyedBlitAtOrigin ==
    /\ op.a = ZERO
    /\ \/ op.name = "whole_image_alpha"
       \/ op.name = "image" /\ op.b = op.src.size /\ op.off = ZERO /\ op.c # NoColor

\* C10: after a keyed blit of the whole source at (0,0) a destination pixel inside
\* the source's extent holds the source pixel where that differs from the key and
\* its previous value where it equals the key; the other pixels are unchanged.
C10_KeyedBlit ==
    KeyedBlitAtOrigin =>
        /\ img.size = pre.size
        /\ \A q \in InRange(pre) :
               Pixel(img, q) =
                   IF q.x < op.src.size.x /\ q.y < op.src.size.y /\ Pixel(op.src, q) # op.c
                   THEN Pixel(op.src, q)
                   ELSE Pixel(pre, q)

\* C10 witness: a keyed blit whose source holds the key and another colour, onto a
\* larger destination of a third colour
C10_Witness ==
    /\ op.name = "whole_image_alpha"
    /\ op.a = ZERO
    /\ op.src.size = vec2(2, 2)
    /\ pre.size = vec2(3, 3)
    /\ op.c = RED
    /\ \E q \in InRange(op.src) : Pixel(op.src, q) = RED /\ Pixel(img, q) = GREEN
    /\ \E q \in InRange(op.src) : Pixel(op.src, q) = BLACK /\ Pixel(img, q) = BLACK

\* C11 as stated: resize completes, the Image has the new size, the pixels of the
\* common top-left part keep their values and every other pixel is black.
C11_Original ==
    op.name = "resize" =>
        /\ ~op.panic
        /\ img.size = op.a
        /\ \A q \in InRange(img) :
               Pixel(img, q) =
                   IF q.x < pre.size.x /\ q.y < pre.size.y THEN Pixel(pre, q) ELSE BLACK

\* C11 failing input: Image::new(1, 2).resize((2, 2)) panics on data[2] and leaves
\* the Image as it was
C11_Witness ==
    /\ op.name = "resize"
    /\ pre = new(1, 2)
    /\ op.a = vec2(2, 2)
    /\ op.panic
    /\ img = pre

\* the columns (rows) C12 expects for origin o and extent e on an axis of length n
FlipSpan(o, e, n) ==
    {k \in 0..(n - 1) : IF e < 0 THEN o + e <= k /\ k <= o - 1 ELSE o <= k /\ k <= o + e - 1}

\* C12 as stated: with a negative size component rect fills the columns
\* p.x+s.x .. p.x-1 (rows likewise), clamped to the Image, and no other pixel.
C12_Original ==
    (op.name = "rect" /\ op.a.x >= 0 /\ op.a.y >= 0 /\ (op.b.x < 0 \/ op.b.y < 0)) =>
        \A q \in InRange(pre) :
            Pixel(img, q) =
                IF /\ q.x \in FlipSpan(op.a.x, op.b.x, pre.size.x)
                   /\ q.y \in FlipSpan(op.a.y, op.b.y, pre.size.y)
                THEN op.c
                ELSE Pixel(pre, q)

\* C12 failing input: rect((2,2),(-2,-2),RED) on a black 3x3 Image sets (1,1)..(2,2)
C12_Witness ==
    /\ op.name = "rect"
    /\ op.a = vec2(2, 2)
    /\ op.b = vec2(-2, -2)
    /\ op.c = RED
    /\ pre = new(3, 3)
    /\ {q \in InRange(img) : Pixel(img, q) = RED} = Range(vec2(1, 1), vec2(2, 2))

\* the coordinates o + i * sign(e), 0 <= i < |e|
PlaneSpan(o, e) == {o + i * (IF e > 0 THEN 1 ELSE -1) : i \in 0..(Abs(e) - 1)}

\* C13 as stated: for every origin and size rect changes exactly the in-range
\* pixels of the rectangle it would fill on an unbounded plane.
C13_Original ==
    op.name = "rect" =>
        \A q \in InRange(pre) :
            Pixel(img, q) =
                IF q.x \in PlaneSpan(op.a.x, op.b.x) /\ q.y \in PlaneSpan(op.a.y, op.b.y)
                THEN op.c
                ELSE Pixel(pre, q)

\* C13 failing input: rect((-1,0),(3,1),RED) on a black 3x1 Image sets only (0,0)
C13_Witness ==
    /\ op.name = "rect"
    /\ op.a = vec2(-1, 0)
    /\ op.b = vec2(3, 1)
    /\ op.c = RED
    /\ pre = new(3, 1)
    /\ img.data = <<RED, BLACK, BLACK>>

\* C14 as stated: a blit of positive size writes the destination pixel q exactly
\* when q is in range, inside [pos, pos + size) and its source coordinate
\* offset + q - pos is inside the source, and it writes that source pixel unless
\* it equals the key colour.
C14_Original ==
    (op.name = "image" /\ op.b.x > 0 /\ op.b.y > 0) =>
        \A q \in InRange(pre) :
            LET sq      == vec2(op.off.x + q.x - op.a.x, op.off.y + q.y - op.a.y)
                covered == /\ op.a.x <= q.x /\ q.x < op.a.x + op.b.x
                           /\ op.a.y <= q.y /\ q.y < op.a.y + op.b.y
                           /\ ~Outside(op.src, sq)
            IN /\ q \in Written => covered
               /\ Pixel(img, q) =
                      IF covered /\ Pixel(op.src, sq) # op.c
                      THEN Pixel(op.src, sq)
                      ELSE Pixel(pre, q)

\* C14 failing input: image(src, (-1,0), (2,2), (0,0), None) with a 2x2 source on a
\* 3x3 Image writes nothing, where column 1 of the source belongs in column 0
C14_Witness ==
    /\ op.name = "image"
    /\ op.a = vec2(-1, 0)
    /\ op.b = vec2(2, 2)
    /\ op.off = ZERO
    /\ op.c = NoColor
    /\ op.src = Pattern(2, 2, 0)
    /\ pre.size = vec2(3, 3)
    /\ op.wr = <<>>
    /\ img = pre
    /\ Pixel(op.src, vec2(1, 0)) # Pixel(pre, ZERO)

\* the most pixel writes the last drawing operation can make with its arguments
WriteBound ==
    CASE op.name = "clear" -> 0
      [] op.name = "point" -> 1
      [] op.name = "line" -> Max(Abs(op.b.x - op.a.x), Abs(op.b.y - op.a.y)) + 1
      [] op.name = "rect_boudary" -> 2 * (Abs(op.b.x) + 1) + 2 * (Abs(op.b.y) + 1)
      [] op.name = "ellipse_boundary" ->
             4 * (Abs(TruncDiv(op.b.x, 2)) + Abs(TruncDiv(op.b.y, 2)) + 1)
      [] OTHER -> (Abs(op.b.x) + Abs(op.a.x) + 1) * (Abs(op.b.y) + Abs(op.a.y) + 1)

\* C15: every drawing operation and clear, whatever the position, size and buffer,
\* completes without a panic after a number of pixel writes bounded by its
\* arguments, and leaves the size of the Image unchanged.
C15_DrawingInfallible ==
    op.name \in DrawingOps \cup {"clear"} =>
        /\ ~op.panic
        /\ phase = "done"
        /\ Len(op.wr) <= WriteBound
        /\ img.size = pre.size
        /\ Len(img.data) = img.size.x * img.size.y

\* C15 witness: a line between two out-of-range points across the whole Image
C15_Witness ==
    /\ op.name = "line"
    /\ op.a = vec2(-1, -1)
    /\ op.b = vec2(MaxW, MaxH)
    /\ pre.size = vec2(MaxW, MaxH)
    /\ ~op.panic
    /\ Len(op.wr) = MaxW + 2
    /\ \A k \in 0..(MaxW - 1) : Pixel(img, vec2(k, k)) = op.c

\* the terminal is in the mode captured when the Renderer was first used
ModeRestored == tty.c_lflag = defaults.c_lflag /\ tty.c_cc = defaults.c_cc

\* C16 as stated: after exit the terminal's mode is the one captured at first
\* access, the cursor is shown, the main screen buffer is active, mouse reporting
\* is disabled and the process has ended.
C16_Original ==
    cpc = "exited" =>
        /\ ModeRestored
        /\ tty.cursor
        /\ ~tty.alt
        /\ ~tty.mouse
        /\ epc = "exited"

\* C16 failing input: after exit the settings are back in the Renderer's struct,
\* the escapes have reached the terminal, and the terminal is still in raw mode
C16_Witness ==
    /\ cpc = "exited"
    /\ call = [op |-> "exit", res |-> "exited"]
    /\ termios = OriginalMode
    /\ tty.cursor
    /\ ~tty.alt
    /\ ~tty.mouse
    /\ tty.c_lflag = RawMode(OriginalMode).c_lflag
    /\ outbuf = <<>>

\* C17 as stated: whenever the process has ended, by exit or by an abort of the
\* caller thread, the original terminal mode, the cursor and the main screen
\* buffer have been restored.
C17_Original ==
    cpc \in {"exited", "aborted"} =>
        /\ ModeRestored
        /\ tty.cursor
        /\ ~tty.alt

\* C17 failing input: end_draw with no frame open aborts the process with the
\* cursor hidden, the alternate screen active and the terminal in raw mode
C17_Witness ==
    /\ cpc = "aborted"
    /\ call = [op |-> "end_draw", res |-> "panic"]
    /\ ~tty.cursor
    /\ tty.alt
    /\ ~ModeRestored
    /\ termios = RawMode(OriginalMode)

\* the calls that send a directive to the rendering thread
EngineCalls ==
    {"begin_draw", "end_draw", "clear_screen", "draw_line", "draw_rect", "draw_rect_boundary",
     "draw_ellipse_boundary", "draw_point", "draw_image", "draw_whole_image_alpha",
     "draw_whole_image"}

C19_Original ==
    last.kind = "UpdateScreenSize" =>
        /\ screen.size = screen_size
        /\ Len(screen.data) = screen.size.x * screen.size.y
        /\ \A k \in 1..Len(screen.data) : screen.data[k] = BLACK

\* C19 failing input: a frame cleared to RED on a 1x2 screen, then a frame on a
\* larger terminal: the resized screen still holds the two RED pixels
C19_Witness ==
    /\ last.kind = "UpdateScreenSize"
    /\ screen.size = vec2(MaxCols, 2 * MaxRows)
    /\ screen.data[1] = RED
    /\ screen.data[2] = RED
    /\ prev_screen = [data |-> <<RED, RED>>, size |-> vec2(1, 2)]

\* the directives that draw on the screen
DrawKinds ==
    {"DrawLine", "DrawRect", "DrawRectBoudary", "DrawEllipseBoudary", "DrawPoint", "DrawImage",
     "DrawWholeImageAlpha", "DrawWholeImage", "ClearScreen"}

\* C20: a begin_draw that goes on to send BeginFrame has enqueued an
\* UpdateScreenSize of the size it observed exactly when that size differs from
\* the one the previous begin_draw observed ((0,0) at first); and when a drawing
\* directive is applied the screen has the size observed by the begin_draw of
\* the frame the directive was sent in.
C20_ResizeOnChange ==
    [][/\ (ncalls' = ncalls + 1 /\ call'.op = "begin_draw" /\ cpc' = "bd_send") =>
              IF observed' # observed
              THEN /\ Len(chan') = Len(chan) + 1
                   /\ chan'[Len(chan')].kind = "UpdateScreenSize"
                   /\ chan'[Len(chan')].a = observed'
              ELSE chan' = chan
       /\ (cpc = "bd_send" /\ cpc' = "bd_wait") =>
              /\ chan'[Len(chan')].kind = "BeginFrame"
              /\ Len(chan') = Len(chan) + 1
       /\ (napplied' = napplied + 1 /\ last'.kind \in DrawKinds) =>
              /\ screen.size = last'.obs
              /\ screen'.size = last'.obs]_vars

\* C20 witness: a drawing directive of a second frame, on a terminal that changed
\* size, has been applied
C20_Witness ==
    /\ last.kind \in DrawKinds
    /\ pushes.n >= 1
    /\ last.obs = vec2(MaxCols, 2 * MaxRows)
    /\ screen.size = last.obs
    /\ prev_screen.size = vec2(1, 2)

\* C21 as stated: a write outside the Image changes no state: the fallback cell
\* shared by all Images keeps its value whatever is drawn, and point at an
\* out-of-range position leaves the Image as it was.
C21_Original ==
    [][/\ TEMP' = TEMP
       /\ (op'.name = "point" /\ Outside(img, op'.a)) => img' = img]_vars

\* C21 failing input: point((-1,0), RED) leaves the Image as it was and RED in the
\* cell that every Image and every thread shares
C21_Witness ==
    /\ op.name = "point"
    /\ op.a = vec2(-1, 0)
    /\ op.c = RED
    /\ op.wr = <<vec2(-1, 0)>>
    /\ img = pre
    /\ TEMP = RED

\* the in-range pixels rect sets when called on the Image pre with the origin, size
\* and colour of the last operation
RectFill ==
    LET r == rect(Machine(pre, BLACK), op.a, op.b, op.c)
    IN {q \in {r.wr[k] : k \in DOMAIN r.wr} : ~Outside(pre, q)}

\* q lies on the first or last row or column of the set of points
OnRim(q, pts) ==
    \/ \A r \in pts : q.x <= r.x
    \/ \A r \in pts : q.x >= r.x
    \/ \A r \in pts : q.y <= r.y
    \/ \A r \in pts : q.y >= r.y

\* C22 as stated: every pixel rect_boudary(p, s, c) sets is set by rect(p, s, c)
\* too, and it sets every in-range pixel on the outer rows and columns of the
\* rectangle that rect fills.
C22_Original ==
    op.name = "rect_boudary" =>
        /\ \A q \in Written : ~Outside(pre, q) => q \in RectFill
        /\ \A q \in RectFill : OnRim(q, RectFill) => q \in Written

\* C22 failing input: rect_boudary((0,0),(2,2),RED) on a black 3x3 Image sets the
\* rim of (0,0)..(2,2), where rect fills (0,0)..(1,1): (2,2) is set and (1,1) is not
C22_Witness ==
    /\ op.name = "rect_boudary"
    /\ op.a = ZERO
    /\ op.b = vec2(2, 2)
    /\ op.c = RED
    /\ pre = new(3, 3)
    /\ RectFill = Range(ZERO, vec2(1, 1))
    /\ {q \in InRange(img) : Pixel(img, q) = RED} = InRange(img) \ {vec2(1, 1)}

\* C23 as stated: for a size with non-negative components every pixel
\* ellipse_boundary sets lies in the rectangle the ellipse is inscribed in:
\* |x - centre.x| <= size.x / 2 and |y - centre.y| <= size.y / 2.
C23_Original ==
    (op.name = "ellipse_boundary" /\ op.b.x >= 0 /\ op.b.y >= 0) =>
        \A q \in Written :
            ~Outside(pre, q) =>
                /\ Abs(q.x - op.a.x) <= TruncDiv(op.b.x, 2)
                /\ Abs(q.y - op.a.y) <= TruncDiv(op.b.y, 2)

\* C23 failing input: ellipse_boundary((1,1),(0,2),RED) on a 3x3 Image, a = 0 and
\* b = 1, sets (0,1) and (2,1), one column to each side of the centre
C23_Witness ==
    /\ op.name = "ellipse_boundary"
    /\ op.a = vec2(1, 1)
    /\ op.b = vec2(0, 2)
    /\ op.c = RED
    /\ pre = new(3, 3)
    /\ {q \in InRange(img) : Pixel(img, q) = RED} = {vec2(1, 0), vec2(1, 2), vec2(0, 1), vec2(2, 1)}

\* the cells one PushFrame goes through, in order: for each the column i, the row
\* j, the two pixels, the printer state before and after, and what was printed
RECURSIVE CellTrace(_, _, _, _, _, _)
CellTrace(st, scr, prv, ssize, j, i) ==
    IF j >= ssize.y THEN <<>>
    ELSE IF i >= ssize.x THEN CellTrace(st, scr, prv, ssize, j + 2, 0)
    ELSE LET after == push_cell(st, scr, prv, i, j)
         IN <<[i |-> i, j |-> j,
               top |-> Index(scr, vec2(i, j)), bottom |-> Index(scr, vec2(i, j + 1)),
               skip |-> unchanged_cell(scr, prv, vec2(i, j), vec2(i, j + 1)),
               before |-> st, after |-> after,
               toks |-> SubSeq(after.out, Len(st.out) + 1, Len(after.out))]>>
            \o CellTrace(after, scr, prv, ssize, j, i + 1)

\* the cells the PushFrame handler goes through from the state it is in
FrameTrace ==
    CellTrace([back |-> back, fore |-> fore, skiped |-> FALSE, out |-> <<Home>>],
              screen, prev_screen, screen_size, 0, 0)

\* this step is a PushFrame that completes
PushStep == napplied' = napplied + 1 /\ last'.kind = "PushFrame"

\* the tokens of the kinds, in order
RECURSIVE Only(_, _)
Only(toks, kinds) ==
    IF toks = <<>> THEN <<>>
    ELSE (IF Head(toks).t \in kinds THEN <<Head(toks)>> ELSE <<>>) \o Only(Tail(toks), kinds)

\* the colour escapes C24 expects for a cell with pixels (t, b) under (fore, back)
Resolved(t, b, fr, bk) ==
    IF t \in {fr, bk} /\ b \in {fr, bk} THEN <<>>
    ELSE IF t = bk \/ b = bk \/ t = b
    THEN <<SetFore(IF t = bk THEN b ELSE t)>>
    ELSE IF t = fr \/ b = fr
    THEN <<SetBack(IF t = fr THEN b ELSE t)>>
    ELSE <<SetFore(t), SetBack(b)>>

\* C24 as stated: a cell that is emitted gets no colour escape when both pixels are
\* among the active colours, one escape when changing one active colour is enough
\* (the foreground if that is enough, else the background), and otherwise the
\* foreground escape for the top pixel followed by the background escape for the
\* bottom pixel.
C24_Original ==
    [][PushStep =>
          \A k \in DOMAIN FrameTrace :
              LET e == FrameTrace[k]
              IN ~e.skip =>
                     Only(e.toks, {"fg", "bg"}) =
                         Resolved(e.top, e.bottom, e.before.fore, e.before.back)]_vars

\* C24 failing input: the first frame, cleared to RED, has been pushed with both
\* active colours BLACK before it: both are RED now, where the foreground was enough
C24_Witness ==
    /\ last.kind = "PushFrame"
    /\ pushes.n = 1
    /\ screen.size = vec2(1, 2)
    /\ screen.data = <<RED, RED>>
    /\ fore = RED
    /\ back = RED
    /\ pushes.last = 3

\* C25: in a PushFrame with screen and prev_screen of the same size, a cell whose
\* two pixels equal those of prev_screen prints nothing and leaves the active
\* colours as they are; a PushFrame of a screen equal to prev_screen therefore
\* sends the terminal the cursor-home escape and nothing else.
C25_UnchangedCellIsSilent ==
    [][PushStep =>
          /\ \A k \in DOMAIN FrameTrace :
                 LET e == FrameTrace[k]
                 IN (/\ screen.size = prev_screen.size
                     /\ e.top = Index(prev_screen, vec2(e.i, e.j))
                     /\ e.bottom = Index(prev_screen, vec2(e.i, e.j + 1)))
                    => /\ e.toks = <<>>
                       /\ e.after.fore = e.before.fore
                       /\ e.after.back = e.before.back
          /\ screen = prev_screen =>
                 /\ term' = TermApply(term, outbuf)
                 /\ fore' = fore
                 /\ back' = back
                 /\ pushes'.last = 0
                 /\ pushes'.jumps = 0]_vars

\* C25 witness: a second frame in which some cells were skipped and a later cell was
\* emitted after a cursor jump
C25_Witness ==
    /\ last.kind = "PushFrame"
    /\ pushes.n = 2
    /\ ~pushes.same
    /\ pushes.jumps = 1
    /\ pushes.last >= 2
    /\ screen.size = prev_screen.size
    /\ screen.size = vec2(MaxCols, 2 * MaxRows)

\* C26: in a PushFrame every emitted cell prints one glyph, last, and the terminal
\* writes it at row j/2 + 1, column i + 1; the cell prints one cursor-position
\* escape, for that row and column and right before the glyph, exactly when the cell
\* before it in the frame was skipped (whether in the same row or at the end of
\* an earlier row), and none otherwise; the first cell of a frame never prints one,
\* whatever the frame before skipped.
C26_GlyphPlacement ==
    [][PushStep =>
          \A k \in DOMAIN FrameTrace :
              LET e    == FrameTrace[k]
                  n    == Len(e.toks)
                  owed == k > 1 /\ FrameTrace[k - 1].skip
                  t1   == TermApply(term, outbuf \o Tail(e.after.out))
              IN ~e.skip =>
                     /\ n >= 1
                     /\ e.toks[n].t = "glyph"
                     /\ Count(e.toks, {"glyph"}) = 1
                     /\ Count(e.toks, {"cup"}) = IF owed THEN 1 ELSE 0
                     /\ owed => n >= 2 /\ e.toks[n - 1] = MoveTo((e.j \div 2) + 1, e.i + 1)
                     /\ t1.row = (e.j \div 2) + 1
                     /\ t1.col = e.i + 2
                     /\ t1.cells[<<(e.j \div 2) + 1, e.i + 1>>] = <<e.top, e.bottom>>]_vars

\* C26 witness: a second frame whose only change is in the second row of cells: both
\* cells of the first row were skipped and the glyph was written after one jump
C26_Witness ==
    /\ last.kind = "PushFrame"
    /\ pushes.n = 2
    /\ pushes.jumps = 1
    /\ screen.size = vec2(MaxCols, 2 * MaxRows)
    /\ prev_screen.size = screen.size
    /\ \A i \in 0..(MaxCols - 1) : Index(screen, vec2(i, 0)) = BLACK /\ Index(screen, vec2(i, 1)) = BLACK
    /\ Index(screen, vec2(0, 3)) = GREEN
    /\ term.cells[<<2, 1>>] = <<BLACK, GREEN>>
    /\ term.row = 2

\* the points after p1 of the Bresenham walk from p1 to p2 on an unbounded plane
RECURSIVE PlaneWalk(_, _, _, _, _, _, _)
PlaneWalk(p1, p2, dx, sx, dy, sy, err) ==
    IF p1 = p2 THEN {}
    ELSE LET e2 == 2 * err
             np == vec2(IF e2 >= dy THEN p1.x + sx ELSE p1.x, IF e2 <= dx THEN p1.y + sy ELSE p1.y)
         IN {np} \cup PlaneWalk(np, p2, dx, sx, dy, sy,
                                err + (IF e2 >= dy THEN dy ELSE 0) + (IF e2 <= dx THEN dx ELSE 0))

\* all points of the walk from p1 to p2
PlaneLine(p1, p2) ==
    LET dx == Abs(p2.x - p1.x)
        dy == -Abs(p2.y - p1.y)
    IN {p1} \cup PlaneWalk(p1, p2, dx, IF p1.x < p2.x THEN 1 ELSE -1,
                           dy, IF p1.y < p2.y THEN 1 ELSE -1, dx + dy)

\* C28: for any two endpoints line completes, and the in-range pixels it sets are
\* the in-range points of the Bresenham walk from p1 to p2 on an unbounded plane:
\* leaving the loop early drops no pixel of the Image; no other pixel changes.
C28_LineClipped ==
    op.name = "line" =>
        /\ ~op.panic
        /\ phase = "done"
        /\ {q \in Written : ~Outside(pre, q)} = {q \in PlaneLine(op.a, op.b) : ~Outside(pre, q)}
        /\ \A q \in InRange(pre) :
               Pixel(img, q) = IF q \in PlaneLine(op.a, op.b) THEN op.c ELSE Pixel(pre, q)

\* C28 witness: a line from right of the Image to its left edge, one row down: the
\* walk enters the Image, reaches column 0 and sets the pixels in between
C28_Witness ==
    /\ op.name = "line"
    /\ op.a = vec2(MaxW, 0)
    /\ op.b = vec2(-1, 1)
    /\ pre.size = vec2(MaxW, MaxH)
    /\ Outside(pre, op.a)
    /\ Outside(pre, op.b)
    /\ Cardinality({q \in Written : ~Outside(pre, q)}) = MaxW
    /\ Len(op.wr) = MaxW + 2

\* a frame is open on the caller's side: begin_draw has returned, end_draw is not yet called
FrameOpen == building_frame /\ cpc = "idle"

\* C29: while a frame is open the rendering thread is past its start-up escapes and
\* inside no PushFrame, stdout holds no part of a frame, and no step of the
\* rendering thread prints or reaches the terminal; the only thing written is the
\* bell of ring_bell, which follows everything written before it.
C29_QuietWhileFrameOpen ==
    [][/\ FrameOpen' =>
              /\ epc' \in {"recv", "barrier"}
              /\ FrameTokens(outbuf') = 0
       /\ (FrameOpen /\ FrameOpen') =>
              /\ term' = term
              /\ pushes' = pushes
              /\ \/ outbuf' = outbuf
                 \/ /\ outbuf' = Append(outbuf, Bell)
                    /\ call' = [op |-> "ring_bell", res |-> "ok"]
                    /\ ncalls' = ncalls + 1]_vars

\* C29 witness: in the second frame, with the first pushed to the terminal, the bell
\* waits in stdout and a drawing directive has been applied since
C29_Witness ==
    /\ FrameOpen
    /\ pushes.n = 1
    /\ outbuf = <<Bell>>
    /\ call.op = "ring_bell"
    /\ last.kind = "BeginFrame"
    /\ epc = "recv"
    /\ screen.size = vec2(MaxCols, 2 * MaxRows)

\* C30 as stated: once exit has written its teardown escapes, no cursor escape and
\* no glyph of a frame reaches the terminal.
C30_Original ==
    call.op = "exit" => ~pushes.late

\* C30 failing input: begin_draw, end_draw, exit: the teardown was flushed while the
\* PushFrame was still to be run, and the frame reached the terminal after it
C30_Witness ==
    /\ cpc = "exited"
    /\ call = [op |-> "exit", res |-> "exited"]
    /\ ncalls = 3
    /\ ~building_frame
    /\ pushes.late
    /\ pushes.n = 1
    /\ last.kind = "PushFrame"
    /\ ~tty.alt
    /\ tty.cursor

\* the caller is inside begin_draw
InBeginDraw == cpc \in {"bd_send", "bd_wait", "bd_blocked"}

\* C27: with both threads scheduled, a begin_draw that has started returns unless
\* the rendering thread has ended; and the barrier pairs one begin_draw with one
\* BeginFrame: nobody is left at the barrier when no begin_draw is in progress, and
\* the rendering thread waits there only for a begin_draw that has sent its BeginFrame.
C27_BeginDrawReturns ==
    /\ InBeginDraw ~> (call = [op |-> "begin_draw", res |-> "returned"] \/ epc = "dead")
    /\ [](~InBeginDraw => bcount = 0)
    /\ []((epc = "barrier" /\ bgen = elgen) => (cpc \in {"bd_wait", "bd_blocked"} /\ chan = <<>>))
    /\ [](bcount \in {0, 1})

\* C27 witness: the third begin_draw has returned after two pushed frames
C27_Witness ==
    /\ call = [op |-> "begin_draw", res |-> "returned"]
    /\ ncalls = 5
    /\ pushes.n = 2
    /\ bgen = 3
    /\ bcount = 0

====
